---------------------------- MODULE Spec2Model ----------------------------
(***************************************************************************)
(* A model of minigc.rs: a stack VM whose heap is a generational arena     *)
(* (vm.rs) collected by mark-sweep, driven by a bytecode interpreter       *)
(* (interpreter.rs).                                                       *)
(*                                                                         *)
(* Two specifications share the variables:                                 *)
(*   Spec    Interpreter::new(input_instructions) followed by run(), one   *)
(*           action per executed instruction;                              *)
(*   SpecVM  a client calling the public API of VM<Value> directly         *)
(*           (push_value, push, pop, get, gc, garbage_collect).            *)
(***************************************************************************)
EXTENDS Integers, Sequences, FiniteSets

VARIABLES
    vm,                  \* VM<Value>: objects, stack, max_objects, gc_on
    input_instructions,  \* the argument of Interpreter::new
    instructions,        \* Interpreter.instructions, slot k at position k+1
    labels,              \* Interpreter.labels: set of <<name, slot>> pairs
    frame,               \* Interpreter.frame: Option<Frame>
    status,              \* where run() (or the VM client) stands
    passes,              \* collections completed since the last allocation or
                         \* operand-stack change
    mark_visits,         \* calls of VM::mark made by the last operation
    issued,              \* every Index returned so far by objects.insert_with
    allocs,              \* number of objects.insert_with calls so far
    last,                \* the last instruction or VM call executed and how it ended
    steps                \* number of operations executed so far

vars == <<vm, input_instructions, instructions, labels, frame, status,
          passes, mark_visits, issued, allocs, last, steps>>

-----------------------------------------------------------------------------
(* Bounds of the model *)

\* Executed instructions per run() before the model stops following it.
MaxSteps == 40

\* Every input sequence over ShortAlphabet up to this length is loaded and run.
MaxProgLen == 3

\* Every loop body over BodyAlphabet up to this length is loaded and run.
MaxBodyLen == 2

\* SpecVM: VM::new(size) for size in 0..MaxThreshold.
MaxThreshold == 2

\* SpecVM: API calls per client run.
MaxCalls == 6

\* SpecVM: push_value calls per client run.
MaxAllocs == 4

\* SpecVM: the longest field list of a Struct the client allocates.
MaxFields == 2

\* SpecVM: the operand stack depth up to which the client pushes.
MaxStack == 2

\* Float operands up to this magnitude are followed: their sums, differences
\* and products are integers that f32 represents exactly.
FloatBound == 2048

-----------------------------------------------------------------------------
(* Option<T>: None is the empty sequence, Some(x) the one-element sequence *)

None == <<>>

Some(x) == <<x>>

-----------------------------------------------------------------------------
(* Value, Object and Index *)

\* Value::Int, Value::Float, Value::Struct.  A Float is one of the
\* integer-valued floats, on which f32 arithmetic is exact within the model's
\* bounds.
ValueInt(i) == [tag |-> "Int", num |-> i, fields |-> <<>>]

ValueFloat(f) == [tag |-> "Float", num |-> f, fields |-> <<>>]

ValueStruct(v) == [tag |-> "Struct", num |-> 0, fields |-> v]

\* impl Tree<Index> for Value
Children(value) == IF value.tag = "Struct" THEN value.fields ELSE <<>>

\* generational_arena::Index
Index(i, g) == [index |-> i, generation |-> g]

\* Object::new
ObjectNew(index, value) == [marked |-> FALSE, index |-> index, value |-> value]

-----------------------------------------------------------------------------
(* generational_arena::Arena, as VM uses it.  Slot i is items[i + 1]. *)

Free(next_free) == [occ |-> FALSE, next_free |-> next_free]

Occupied(generation, value) == [occ |-> TRUE, generation |-> generation, value |-> value]

EmptyArena == [items |-> <<>>, generation |-> 0, free_list_head |-> None, len |-> 0]

\* Arena::reserve: new free slots chained in ascending order in front of the
\* old free list.
ArenaReserve(a, additional) ==
    LET start == Len(a.items)
        end == start + additional
    IN [a EXCEPT
          !.items = [k \in 1..end |->
                        IF k <= start THEN a.items[k]
                        ELSE IF k = end THEN Free(a.free_list_head)
                        ELSE Free(Some(k))],
          !.free_list_head = Some(start)]

\* Arena::with_capacity
ArenaWithCapacity(n) == ArenaReserve(EmptyArena, IF n > 1 THEN n ELSE 1)

\* Arena::new: with_capacity(DEFAULT_CAPACITY)
DefaultCapacity == 4

ArenaNew == ArenaWithCapacity(DefaultCapacity)

\* Arena::get / Index<Index>: Some(value) when the slot is occupied by that
\* generation.
ArenaGet(a, id) ==
    IF /\ id.index < Len(a.items)
       /\ a.items[id.index + 1].occ
       /\ a.items[id.index + 1].generation = id.generation
    THEN Some(a.items[id.index + 1].value)
    ELSE None

ArenaContains(a, id) == ArenaGet(a, id) # None

\* Arena::insert_with(|idx| Object::new(idx, val)): the head of the free list,
\* after doubling the capacity when the list is empty; the new occupant gets
\* the arena's current generation.
ArenaInsertObject(a, val) ==
    LET a1 == IF a.free_list_head = None
              THEN ArenaReserve(a, IF Len(a.items) = 0 THEN 1 ELSE Len(a.items))
              ELSE a
        i == a1.free_list_head[1]
        idx == Index(i, a1.generation)
    IN [arena |-> [a1 EXCEPT
                     !.free_list_head = a1.items[i + 1].next_free,
                     !.len = @ + 1,
                     !.items[i + 1] = Occupied(a1.generation, ObjectNew(idx, val))],
        index |-> idx]

\* Arena::remove that forgets to bump the generation.
ArenaRemoveSlotNoBump(a, i) ==
    [a EXCEPT
       !.items[i + 1] = Free(a.free_list_head),
       !.free_list_head = Some(i),
       !.len = @ - 1]

\* Arena::remove of an occupied slot: the slot becomes the head of the free
\* list and the arena's generation is bumped.
ArenaRemoveSlot(a, i) ==
    [a EXCEPT
       !.items[i + 1] = Free(a.free_list_head),
       !.generation = @ + 1,
       !.free_list_head = Some(i),
       !.len = @ - 1]

\* The identifiers of the occupied slots.
LiveIds(a) ==
    {Index(k - 1, a.items[k].generation) : k \in {j \in 1..Len(a.items) : a.items[j].occ}}


-----------------------------------------------------------------------------
(* VM<V> *)

\* VM::new
VMNew(size) == [objects |-> ArenaNew, stack |-> <<>>, max_objects |-> size, gc_on |-> TRUE]

\* VM::get / VM::get_mut: None stands for the panic of objects[id].
Get(v, id) == ArenaGet(v.objects, id)

\* VM::push
Push(v, id) == [v EXCEPT !.stack = Append(@, id)]

\* VM::top
Top(v) == IF v.stack = <<>> THEN None ELSE Some(v.stack[Len(v.stack)])

\* VM::pop: the stack without its last identifier.
PopRest(v) == [v EXCEPT !.stack = SubSeq(@, 1, Len(@) - 1)]

\* VM::mark that marks the object and leaves its children alone.
MarkShallow(objects, id) ==
    IF ~ArenaContains(objects, id)
    THEN [objects |-> objects, ok |-> FALSE, visits |-> 1]
    ELSE [objects |-> [objects EXCEPT !.items[id.index + 1].value.marked = TRUE],
          ok |-> TRUE, visits |-> 1]

RECURSIVE Mark(_, _), MarkEach(_, _)

\* VM::mark: get_mut(id) panics (ok = FALSE) on an identifier that is not
\* live; otherwise the object is marked and every child is marked in turn.
\* visits counts the calls of mark.
Mark(objects, id) ==
    IF ~ArenaContains(objects, id)
    THEN [objects |-> objects, ok |-> FALSE, visits |-> 1]
    ELSE LET marked == [objects EXCEPT !.items[id.index + 1].value.marked = TRUE]
             r == MarkEach(marked, Children(ArenaGet(objects, id)[1].value))
         IN [r EXCEPT !.visits = @ + 1]

\* The loop of VM::mark over children and of VM::mark_all over the stack:
\* mark each identifier in order, stopping at the first panic.
MarkEach(objects, ids) ==
    IF ids = <<>>
    THEN [objects |-> objects, ok |-> TRUE, visits |-> 0]
    ELSE LET r == Mark(objects, Head(ids))
         IN IF ~r.ok
            THEN r
            ELSE LET r2 == MarkEach(r.objects, Tail(ids))
                 IN [r2 EXCEPT !.visits = @ + r.visits]

\* VM::mark_all
MarkAll(v) == MarkEach(v.objects, v.stack)

\* The closure of VM::sweep that keeps the unmarked objects instead.
SweepSlotInverted(a, i) ==
    IF ~a.items[i + 1].occ THEN a
    ELSE IF ~a.items[i + 1].value.marked
         THEN a
         ELSE ArenaRemoveSlot([a EXCEPT !.items[i + 1].value.marked = FALSE], i)

\* The closure of VM::sweep that forgets to clear the mark.
SweepSlotKeepMark(a, i) ==
    IF ~a.items[i + 1].occ THEN a
    ELSE IF a.items[i + 1].value.marked
         THEN a
         ELSE ArenaRemoveSlot(a, i)

\* One step of Arena::retain with the closure of VM::sweep: a marked object
\* is kept with its mark cleared, an unmarked one is removed.
SweepSlot(a, i) ==
    IF ~a.items[i + 1].occ THEN a
    ELSE IF a.items[i + 1].value.marked
         THEN [a EXCEPT !.items[i + 1].value.marked = FALSE]
         ELSE ArenaRemoveSlot(a, i)

RECURSIVE Retain(_, _)

\* Arena::retain: the slots in ascending order, from slot i on.
Retain(a, i) == IF i >= Len(a.items) THEN a ELSE Retain(SweepSlot(a, i), i + 1)

\* VM::sweep
Sweep(objects) == Retain(objects, 0)

\* The outcome of a VM operation: the VM after it, whether it returned
\* (ok = FALSE: it panicked), whether mark_all and sweep both ran, and the
\* number of calls of mark.
Outcome(v, ok, coll, visits) == [vm |-> v, ok |-> ok, collected |-> coll, visits |-> visits]

\* VM::garbage_collect
GarbageCollect(v) ==
    IF ~v.gc_on
    THEN Outcome(v, TRUE, FALSE, 0)
    ELSE LET m == MarkAll(v)
         IN IF ~m.ok
            THEN Outcome([v EXCEPT !.objects = m.objects], FALSE, FALSE, m.visits)
            ELSE Outcome([v EXCEPT !.objects = Sweep(m.objects)], TRUE, TRUE, m.visits)

\* VM::push_value that never collects.
PushValueNoCollect(v, val) ==
    LET ins == ArenaInsertObject(v.objects, val)
    IN Outcome(Push([v EXCEPT !.objects = ins.arena], ins.index), TRUE, FALSE, 0)

\* VM::push_value with the threshold test off by one.
PushValueAtThreshold(v, val) ==
    LET ins == ArenaInsertObject(v.objects, val)
        v1 == Push([v EXCEPT !.objects = ins.arena], ins.index)
    IN IF v1.objects.len >= v1.max_objects
       THEN GarbageCollect(v1)
       ELSE Outcome(v1, TRUE, FALSE, 0)

\* VM::push_value
PushValue(v, val) ==
    LET ins == ArenaInsertObject(v.objects, val)
        v1 == Push([v EXCEPT !.objects = ins.arena], ins.index)
    IN IF v1.objects.len > v1.max_objects
       THEN GarbageCollect(v1)
       ELSE Outcome(v1, TRUE, FALSE, 0)

\* The Index that the insert_with of push_value returns.
PushValueIndex(v, val) == ArenaInsertObject(v.objects, val).index

\* VM::gc
Gc(v, on) ==
    LET v1 == [v EXCEPT !.gc_on = on]
    IN IF v1.gc_on /\ v1.objects.len > v1.max_objects
       THEN GarbageCollect(v1)
       ELSE Outcome(v1, TRUE, FALSE, 0)

-----------------------------------------------------------------------------
(* i32 arithmetic.  An overflowing operation panics in a build with overflow
   checks and wraps in a build without. *)

MaxI32 == 2147483647

MinI32 == -MaxI32 - 1

\* a + b overflows i32 (computed without leaving the i32 range).
AddOverflows(a, b) ==
    \/ a > 0 /\ b > MaxI32 - a
    \/ a < 0 /\ b < MinI32 - a

\* i32::wrapping_add
WrappingAdd(a, b) ==
    IF a > 0 /\ b > MaxI32 - a THEN ((a + MinI32) + b) + MinI32
    ELSE IF a < 0 /\ b < MinI32 - a THEN ((a - MinI32) + b) - MinI32
    ELSE a + b

\* i32::wrapping_neg
WrappingNeg(a) == IF a = MinI32 THEN MinI32 ELSE -a

\* a - b overflows i32.
SubOverflows(a, b) ==
    \/ b = MinI32 /\ a >= 0
    \/ b # MinI32 /\ AddOverflows(a, -b)

\* i32::wrapping_sub
WrappingSub(a, b) ==
    IF b = MinI32 THEN WrappingAdd(WrappingAdd(a, MaxI32), 1) ELSE WrappingAdd(a, -b)

Abs(a) == IF a < 0 THEN -a ELSE a

\* a * b overflows i32: the product of the magnitudes exceeds MaxI32, or
\* MaxI32 + 1 when the product is negative.
MulOverflows(a, b) ==
    IF a = 0 \/ b = 0 THEN FALSE
    ELSE IF a = MinI32 THEN b # 1
    ELSE IF b = MinI32 THEN a # 1
    ELSE LET q == MaxI32 \div Abs(a)
         IN /\ Abs(b) > q
            /\ \/ (a > 0) = (b > 0)
               \/ ~(Abs(b) = q + 1 /\ MaxI32 % Abs(a) = Abs(a) - 1)

\* The low and the high 16 bits of the two's complement form of an i32.
Lo16(a) == a % 65536

Hi16(a) == ((a - Lo16(a)) \div 65536) % 65536

\* x * y modulo 2^16 for 16-bit x and y, through 8-bit halves of y.
MulLo16(x, y) == (x * (y % 256) + 256 * ((x * (y \div 256)) % 256)) % 65536

\* i32::wrapping_mul: the product modulo 2^32 from 16-bit halves, no partial
\* result leaving the i32 range.
WrappingMul(a, b) ==
    LET t0 == Lo16(a) * (Lo16(b) % 256)
        t1 == Lo16(a) * (Lo16(b) \div 256)
        lowsum == t0 + 256 * (t1 % 256)
        low == lowsum % 65536
        high == ((t1 \div 256) + (lowsum \div 65536)
                 + MulLo16(Hi16(a), Lo16(b)) + MulLo16(Lo16(a), Hi16(b))) % 65536
    IN IF high >= 32768 THEN (high - 65536) * 65536 + low ELSE high * 65536 + low

-----------------------------------------------------------------------------
(* Instruction *)

Instr(op, n, label) == [op |-> op, n |-> n, label |-> label]

ConstInt(i) == Instr("ConstInt", i, "")

ConstFloat(f) == Instr("ConstFloat", f, "")

PushStruct(n) == Instr("PushStruct", n, "")

GetStruct(i) == Instr("GetStruct", i, "")

GetLocal(i) == Instr("GetLocal", i, "")

Label(s) == Instr("Label", 0, s)

Call(s, n) == Instr("Call", n, s)

Jump(s) == Instr("Jump", 0, s)

JmpCmp(s) == Instr("JmpCmp", 0, s)

Return == Instr("Return", 0, "")

IAdd == Instr("IAdd", 0, "")

FAdd == Instr("FAdd", 0, "")

ISub == Instr("ISub", 0, "")

FSub == Instr("FSub", 0, "")

IMul == Instr("IMul", 0, "")

FMul == Instr("FMul", 0, "")

CEq == Instr("CEq", 0, "")

CNe == Instr("CNe", 0, "")

CLt == Instr("CLt", 0, "")

CLe == Instr("CLe", 0, "")

CGt == Instr("CGt", 0, "")

CGe == Instr("CGe", 0, "")

\* The opcodes dispatched to binop! and to cmp!.
IntBinops == {"IAdd", "ISub", "IMul"}

FloatBinops == {"FAdd", "FSub", "FMul"}

CmpOps == {"CEq", "CNe", "CLt", "CLe", "CGt", "CGe"}

-----------------------------------------------------------------------------
(* Interpreter::new *)

\* HashMap::insert on the label table.
LabelInsert(lbls, name, idx) == {p \in lbls : p[1] # name} \cup {<<name, idx>>}

\* HashMap::get on the label table.
LabelGet(lbls, name) ==
    IF \E p \in lbls : p[1] = name
    THEN Some((CHOOSE p \in lbls : p[1] = name)[2])
    ELSE None

\* The body of the loading loop: a Label replaces the pending label; any
\* other instruction is inserted in the next slot and takes the pending label.
LoadOne(st, instruction) ==
    IF instruction.op = "Label"
    THEN [st EXCEPT !.next_label = Some(instruction.label)]
    ELSE LET idx == Len(st.instructions)
         IN [instructions |-> Append(st.instructions, instruction),
             labels |-> IF st.next_label # None
                        THEN LabelInsert(st.labels, st.next_label[1], idx)
                        ELSE st.labels,
             next_label |-> None,
             first_instr |-> IF st.first_instr = None THEN Some(idx) ELSE st.first_instr]

\* The threshold Interpreter::new gives its VM.
InterpreterMaxObjects == 10

RECURSIVE LoadFrom(_, _)

\* for instruction in input_instructions, from the state st on.
LoadFrom(st, input) ==
    IF input = <<>> THEN st ELSE LoadFrom(LoadOne(st, Head(input)), Tail(input))

\* Interpreter::new: the loaded instructions, the label table and the frame
\* (None when the input holds no instruction).
New(input) ==
    LET st == LoadFrom([instructions |-> <<>>, labels |-> {},
                        next_label |-> None, first_instr |-> None], input)
    IN [vm |-> VMNew(InterpreterMaxObjects),
        instructions |-> st.instructions,
        labels |-> st.labels,
        frame |-> IF st.first_instr = None
                  THEN None
                  ELSE Some([instr_ptr |-> st.first_instr[1], locals_stack |-> <<>>])]

\* What Interpreter::new returns: `return Some(this)`, whatever the input.
NewReturn(input) == Some(New(input))

-----------------------------------------------------------------------------
(* Interpreter::execute.  Each opcode yields the VM and the locals stack
   after it and res: the InstructionResult (Next, Jump with its target, Stop),
   the InterpreterError, or the panic that ended it. *)

ER(v, ls, res, target, coll, visits, alloc) ==
    [vm |-> v, locals_stack |-> ls, res |-> res, target |-> target,
     collected |-> coll, visits |-> visits, alloc |-> alloc]

\* An instruction that ends without allocating.
Plain(v, ls, res, target) == ER(v, ls, res, target, FALSE, 0, {})

\* An instruction that ends with self.vm.push_value(val).
WithPushValue(v, ls, val) ==
    LET o == PushValue(v, val)
    IN ER(o.vm, ls, IF o.ok THEN "Next" ELSE "PanicInMark", 0,
          o.collected, o.visits, {PushValueIndex(v, val)})

\* n pops that take nothing off the stack when it holds fewer than n.
PopNOrNothing(v, n) ==
    IF n <= Len(v.stack)
    THEN [vals |-> [k \in 1..n |-> v.stack[Len(v.stack) - k + 1]],
          vm |-> [v EXCEPT !.stack = SubSeq(@, 1, Len(v.stack) - n)],
          ok |-> TRUE]
    ELSE [vals |-> <<>>, vm |-> v, ok |-> FALSE]

\* (0..n).map(|_| self.vm.pop()).rev().collect::<Option<Vec<_>>>(): the
\* closure runs as the reversed iterator is consumed, so the first element
\* collected is the first pop; collecting stops at the first None.
PopN(v, n) ==
    LET len == Len(v.stack)
        m == IF n <= len THEN n ELSE len
    IN [vals |-> [k \in 1..m |-> v.stack[len - k + 1]],
        vm |-> [v EXCEPT !.stack = SubSeq(@, 1, len - m)],
        ok |-> n <= len]

RECURSIVE DisplayOk(_, _)

\* VM::display / display_arena return: every object the rendering
\* dereferences is live (arena[i] panics otherwise).
DisplayOk(objects, id) ==
    /\ ArenaContains(objects, id)
    /\ LET ch == Children(ArenaGet(objects, id)[1].value)
       IN \A k \in 1..Len(ch) : DisplayOk(objects, ch[k])

\* The ValueMismatch arm of binop! and cmp!: both operands are rendered.
Mismatch2(v, ls, ia, ib) ==
    IF DisplayOk(v.objects, ia) /\ DisplayOk(v.objects, ib)
    THEN Plain(v, ls, "ValueMismatch", 0)
    ELSE Plain(v, ls, "PanicInDisplay", 0)

ExecConstInt(v, ls, i) == WithPushValue(v, ls, ValueInt(i))

ExecConstFloat(v, ls, f) == WithPushValue(v, ls, ValueFloat(f))

ExecPushStruct(v, ls, s) ==
    LET p == PopN(v, s)
    IN IF ~p.ok
       THEN Plain(p.vm, ls, "StackUnderflow", 0)
       ELSE WithPushValue(p.vm, ls, ValueStruct(p.vals))

ExecGetLocal(v, ls, i) ==
    IF ls = <<>>
    THEN Plain(v, ls, "StackUnderflow", 0)
    ELSE LET s == ls[Len(ls)]
         IN IF i >= Len(s)
            THEN Plain(v, ls, "PanicIndexOutOfBounds", 0)
            ELSE Plain(Push(v, s[i + 1]), ls, "Next", 0)

ExecGetStruct(v, ls, i) ==
    IF Top(v) = None
    THEN Plain(v, ls, "StackUnderflow", 0)
    ELSE LET s == Top(v)[1]
             v1 == PopRest(v)
         IN IF Get(v1, s) = None
            THEN Plain(v1, ls, "PanicInGet", 0)
            ELSE LET val == Get(v1, s)[1].value
                 IN IF val.tag = "Struct"
                    THEN IF i >= Len(val.fields)
                         THEN Plain(v1, ls, "PanicIndexOutOfBounds", 0)
                         ELSE Plain(Push(v1, val.fields[i + 1]), ls, "Next", 0)
                    ELSE IF DisplayOk(v1.objects, s)
                         THEN Plain(v1, ls, "ValueMismatch", 0)
                         ELSE Plain(v1, ls, "PanicInDisplay", 0)

\* get_binop that hands its operands over in the order of the pops.
GetBinopSwapped(v) ==
    IF Len(v.stack) < 2
    THEN [res |-> "StackUnderflow", vm |-> [v EXCEPT !.stack = <<>>],
          a |-> None, b |-> None]
    ELSE LET b == v.stack[Len(v.stack)]
             a == v.stack[Len(v.stack) - 1]
             v2 == PopRest(PopRest(v))
         IN IF Get(v2, a) = None \/ Get(v2, b) = None
            THEN [res |-> "PanicInGet", vm |-> v2, a |-> None, b |-> None]
            ELSE [res |-> "Ok", vm |-> v2, a |-> Get(v2, b), b |-> Get(v2, a)]

\* Interpreter::get_binop: b is popped first, then a; both are dereferenced.
GetBinop(v) ==
    IF Top(v) = None
    THEN [res |-> "StackUnderflow", vm |-> v, a |-> None, b |-> None]
    ELSE LET b == Top(v)[1]
             v1 == PopRest(v)
         IN IF Top(v1) = None
            THEN [res |-> "StackUnderflow", vm |-> v1, a |-> None, b |-> None]
            ELSE LET a == Top(v1)[1]
                     v2 == PopRest(v1)
                 IN IF Get(v2, a) = None \/ Get(v2, b) = None
                    THEN [res |-> "PanicInGet", vm |-> v2, a |-> None, b |-> None]
                    ELSE [res |-> "Ok", vm |-> v2, a |-> Get(v2, a), b |-> Get(v2, b)]

\* i32::add, i32::sub, i32::mul
IntOverflows(op, a, b) ==
    CASE op = "IAdd" -> AddOverflows(a, b)
      [] op = "ISub" -> SubOverflows(a, b)
      [] op = "IMul" -> MulOverflows(a, b)

IntResult(op, a, b) ==
    CASE op = "IAdd" -> WrappingAdd(a, b)
      [] op = "ISub" -> WrappingSub(a, b)
      [] op = "IMul" -> WrappingMul(a, b)

\* f32::add, f32::sub, f32::mul on operands within FloatBound.
FloatResult(op, a, b) ==
    CASE op = "FAdd" -> a + b
      [] op = "FSub" -> a - b
      [] op = "FMul" -> a * b

\* binop!(self, Value::Int | Value::Float, op).  checked: the build panics
\* on i32 overflow; otherwise it wraps.
ExecBinop(v, ls, op, checked) ==
    LET g == GetBinop(v)
    IN IF g.res # "Ok"
       THEN Plain(g.vm, ls, g.res, 0)
       ELSE LET a == g.a[1].value
                b == g.b[1].value
            IN IF op \in IntBinops /\ a.tag = "Int" /\ b.tag = "Int"
               THEN IF checked /\ IntOverflows(op, a.num, b.num)
                    THEN Plain(g.vm, ls, "PanicOverflow", 0)
                    ELSE WithPushValue(g.vm, ls, ValueInt(IntResult(op, a.num, b.num)))
               ELSE IF op \in FloatBinops /\ a.tag = "Float" /\ b.tag = "Float"
               THEN IF Abs(a.num) > FloatBound \/ Abs(b.num) > FloatBound
                    THEN Plain(g.vm, ls, "Unmodelled", 0)
                    ELSE WithPushValue(g.vm, ls, ValueFloat(FloatResult(op, a.num, b.num)))
               ELSE Mismatch2(g.vm, ls, g.a[1].index, g.b[1].index)

\* PartialEq::eq .. PartialOrd::ge
Compare(op, a, b) ==
    CASE op = "CEq" -> a = b
      [] op = "CNe" -> a # b
      [] op = "CLt" -> a < b
      [] op = "CLe" -> a <= b
      [] op = "CGt" -> a > b
      [] op = "CGe" -> a >= b

\* cmp!(self, op)
ExecCmp(v, ls, op) ==
    LET g == GetBinop(v)
    IN IF g.res # "Ok"
       THEN Plain(g.vm, ls, g.res, 0)
       ELSE LET a == g.a[1].value
                b == g.b[1].value
            IN IF (a.tag = "Int" /\ b.tag = "Int") \/ (a.tag = "Float" /\ b.tag = "Float")
               THEN WithPushValue(g.vm, ls,
                                  ValueInt(IF Compare(op, a.num, b.num) THEN 1 ELSE 0))
               ELSE Mismatch2(g.vm, ls, g.a[1].index, g.b[1].index)

\* Call that pops its operands before it looks the label up.
ExecCallPopsFirst(v, ls, lbls, s, n) ==
    LET p == PopN(v, n)
    IN IF ~p.ok
       THEN Plain(p.vm, ls, "StackUnderflow", 0)
       ELSE IF LabelGet(lbls, s) = None
       THEN Plain(p.vm, ls, "UnresolvedLabel", 0)
       ELSE Plain(p.vm, Append(ls, p.vals), "Jump", LabelGet(lbls, s)[1])

\* Interpreter::execute, Call
ExecCall(v, ls, lbls, s, n) ==
    IF LabelGet(lbls, s) = None
    THEN Plain(v, ls, "UnresolvedLabel", 0)
    ELSE LET p == PopN(v, n)
         IN IF ~p.ok
            THEN Plain(p.vm, ls, "StackUnderflow", 0)
            ELSE Plain(p.vm, Append(ls, p.vals), "Jump", LabelGet(lbls, s)[1])

ExecJump(v, ls, lbls, s) ==
    IF LabelGet(lbls, s) = None
    THEN Plain(v, ls, "UnresolvedLabel", 0)
    ELSE Plain(v, ls, "Jump", LabelGet(lbls, s)[1])

ExecJmpCmp(v, ls, lbls, s) ==
    IF LabelGet(lbls, s) = None
    THEN Plain(v, ls, "UnresolvedLabel", 0)
    ELSE IF Top(v) = None
    THEN Plain(v, ls, "StackUnderflow", 0)
    ELSE LET val == Top(v)[1]
             v1 == PopRest(v)
         IN IF Get(v1, val) = None
            THEN Plain(v1, ls, "PanicInGet", 0)
            ELSE LET cmp == Get(v1, val)[1]
                 IN IF cmp.value.tag = "Int" /\ cmp.value.num = 1
                    THEN Plain(v1, ls, "Jump", LabelGet(lbls, s)[1])
                    ELSE IF cmp.value.tag = "Int" /\ cmp.value.num = 0
                    THEN Plain(v1, ls, "Next", 0)
                    ELSE IF DisplayOk(v1.objects, cmp.index)
                    THEN Plain(v1, ls, "ValueMismatch", 0)
                    ELSE Plain(v1, ls, "PanicInDisplay", 0)

\* Return that pops the innermost locals frame and carries on.
ExecReturnToCaller(v, ls) == Plain(v, SubSeq(ls, 1, Len(ls) - 1), "Next", 0)

\* Interpreter::execute, Return
ExecReturn(v, ls) == Plain(v, ls, "Stop", 0)

-----------------------------------------------------------------------------
(* Interpreter::run, one action per executed instruction *)

\* self.vm.top().ok_or(StackUnderflow), the value run() returns after its loop.
Finish(v) == IF Top(v) = None THEN "StackUnderflow" ELSE "Ok"

\* The loop condition of run(): the frame exists and its instr_ptr names a
\* stored instruction.
Fetched ==
    /\ status = "Running"
    /\ frame # None
    /\ frame[1].instr_ptr < Len(instructions)

CurInstr == instructions[frame[1].instr_ptr + 1]

\* The collections completed in a row: a completed collection that follows an
\* allocation or a stack change is the first, one that follows neither is one
\* more, and an operation that neither allocates nor changes the stack keeps
\* the count.
PassesAfter(before, after, coll, allocated) ==
    LET same == after.stack = before.stack /\ ~allocated
    IN IF coll
       THEN IF same THEN passes + 1 ELSE 1
       ELSE IF same THEN passes ELSE 0

\* The match on execute's result in run(): Next moves to the following slot
\* or leaves the loop when there is none, Jump moves to its target, Stop leaves
\* the loop, an error or a panic ends run().
Apply(instr, r) ==
    /\ r.res # "Unmodelled"
    /\ vm' = r.vm
    /\ frame' = Some([instr_ptr |->
                         IF r.res = "Next" /\ frame[1].instr_ptr + 1 < Len(instructions)
                         THEN frame[1].instr_ptr + 1
                         ELSE IF r.res = "Jump" THEN r.target
                         ELSE frame[1].instr_ptr,
                      locals_stack |-> r.locals_stack])
    /\ status' = IF r.res = "Next"
                 THEN IF frame[1].instr_ptr + 1 < Len(instructions)
                      THEN "Running"
                      ELSE Finish(r.vm)
                 ELSE IF r.res = "Jump" THEN "Running"
                 ELSE IF r.res = "Stop" THEN Finish(r.vm)
                 ELSE r.res
    /\ passes' = PassesAfter(vm, r.vm, r.collected, r.alloc # {})
    /\ mark_visits' = r.visits
    /\ issued' = issued \cup r.alloc
    /\ allocs' = allocs + Cardinality(r.alloc)
    /\ last' = [instr |-> instr, res |-> r.res]
    /\ steps' = steps + 1
    /\ UNCHANGED <<input_instructions, instructions, labels>>

Locals == frame[1].locals_stack

StepConstInt ==
    /\ Fetched /\ steps < MaxSteps /\ CurInstr.op = "ConstInt"
    /\ Apply(CurInstr, ExecConstInt(vm, Locals, CurInstr.n))

StepConstFloat ==
    /\ Fetched /\ steps < MaxSteps /\ CurInstr.op = "ConstFloat"
    /\ Apply(CurInstr, ExecConstFloat(vm, Locals, CurInstr.n))

StepPushStruct ==
    /\ Fetched /\ steps < MaxSteps /\ CurInstr.op = "PushStruct"
    /\ Apply(CurInstr, ExecPushStruct(vm, Locals, CurInstr.n))

StepGetLocal ==
    /\ Fetched /\ steps < MaxSteps /\ CurInstr.op = "GetLocal"
    /\ Apply(CurInstr, ExecGetLocal(vm, Locals, CurInstr.n))

StepGetStruct ==
    /\ Fetched /\ steps < MaxSteps /\ CurInstr.op = "GetStruct"
    /\ Apply(CurInstr, ExecGetStruct(vm, Locals, CurInstr.n))

StepBinop ==
    /\ Fetched /\ steps < MaxSteps /\ CurInstr.op \in IntBinops \cup FloatBinops
    /\ \E checked \in BOOLEAN :
          Apply(CurInstr, ExecBinop(vm, Locals, CurInstr.op, checked))

StepCmp ==
    /\ Fetched /\ steps < MaxSteps /\ CurInstr.op \in CmpOps
    /\ Apply(CurInstr, ExecCmp(vm, Locals, CurInstr.op))

StepCall ==
    /\ Fetched /\ steps < MaxSteps /\ CurInstr.op = "Call"
    /\ Apply(CurInstr, ExecCall(vm, Locals, labels, CurInstr.label, CurInstr.n))

StepJump ==
    /\ Fetched /\ steps < MaxSteps /\ CurInstr.op = "Jump"
    /\ Apply(CurInstr, ExecJump(vm, Locals, labels, CurInstr.label))

StepJmpCmp ==
    /\ Fetched /\ steps < MaxSteps /\ CurInstr.op = "JmpCmp"
    /\ Apply(CurInstr, ExecJmpCmp(vm, Locals, labels, CurInstr.label))

StepReturn ==
    /\ Fetched /\ steps < MaxSteps /\ CurInstr.op = "Return"
    /\ Apply(CurInstr, ExecReturn(vm, Locals))

\* run() on an interpreter without a frame: the loop is not entered.
RunNoInstruction ==
    /\ status = "Running"
    /\ frame = None
    /\ last.instr.op = "new"
    /\ status' = Finish(vm)
    /\ last' = [instr |-> Instr("run", 0, ""), res |-> "Stop"]
    /\ mark_visits' = 0
    /\ steps' = steps + 1
    /\ UNCHANGED <<vm, input_instructions, instructions, labels, frame, passes, issued, allocs>>

-----------------------------------------------------------------------------
(* The inputs of Interpreter::new that the model loads and runs *)

RECURSIVE SeqsUpTo(_, _)

\* The sequences over S of length at most n.
SeqsUpTo(S, n) ==
    IF n = 0 THEN {<<>>}
    ELSE LET shorter == SeqsUpTo(S, n - 1)
         IN shorter \cup {Append(q, x) : q \in shorter, x \in S}

ShortAlphabet ==
    {ConstInt(1), ConstInt(2), ConstFloat(1), PushStruct(2), GetStruct(1),
     GetLocal(0), Label("a"), Label("b"), IAdd, CLt, Call("a", 1), Jump("b"),
     JmpCmp("a"), Return}

ShortPrograms == SeqsUpTo(ShortAlphabet, MaxProgLen)

BodyAlphabet ==
    {ConstInt(1), ConstInt(2), GetLocal(0), GetLocal(1), PushStruct(1),
     PushStruct(2), GetStruct(0), IAdd}

Prefixes ==
    {<<>>, <<ConstInt(1), Call("a", 1)>>, <<ConstInt(1), ConstInt(2), Call("a", 2)>>}

Closers == {Jump("a"), Call("a", 1)}

\* A prefix, then a loop around every short body.
LoopPrograms ==
    {pre \o <<Label("a")>> \o body \o <<closer>> :
        pre \in Prefixes, body \in SeqsUpTo(BodyAlphabet, MaxBodyLen), closer \in Closers}

\* A prefix, then as many allocations as the threshold allows, then every
\* short tail.
Fill == [k \in 1..InterpreterMaxObjects |-> ConstInt(1)]

FillPrograms ==
    {pre \o <<Label("a")>> \o Fill \o tail :
        pre \in Prefixes, tail \in SeqsUpTo(BodyAlphabet, MaxBodyLen)}

AllBinops ==
    {IAdd, ISub, IMul, FAdd, FSub, FMul, CEq, CNe, CLt, CLe, CGt, CGe}

Literals == {ConstInt(0), ConstInt(1), ConstInt(2), ConstInt(MaxI32), ConstInt(MinI32),
             ConstFloat(1), ConstFloat(2)}

\* Two literals and one binary opcode.
BinopPrograms == {<<x, y, op>> : x \in Literals, y \in Literals, op \in AllBinops}

\* The programs of main.rs and of the documented examples.
ExamplePrograms ==
    {<<ConstInt(3), ConstInt(7), ConstInt(2), IMul, IMul>>,
     <<ConstInt(1), ConstFloat(2), IAdd>>,
     <<ConstInt(1), ConstInt(2), PushStruct(2), GetStruct(1)>>,
     <<ConstInt(1), ConstInt(2), PushStruct(2), GetStruct(0)>>,
     <<IAdd>>,
     <<Jump("nope")>>,
     <<ConstInt(1), ConstInt(2), Call("a", 2), Label("a"), GetLocal(0)>>,
     <<ConstInt(5), ConstInt(3), Call("a", 2), Label("a"), GetLocal(0), GetLocal(1), ISub>>,
     <<Label("a"), Label("b"), ConstInt(1), Jump("a")>>,
     <<ConstInt(0), JmpCmp("a"), ConstInt(1), JmpCmp("a"), ConstInt(7), Label("a"),
       ConstInt(2), Return, ConstInt(3)>>}

\* One local that the first collection frees, a second collection that makes
\* room, then a Struct built around the local and one more instruction.
StaleLocalPrograms ==
    {<<ConstInt(1), Call("a", 1), Label("a")>> \o Fill
        \o <<IAdd, GetLocal(0), PushStruct(1), x>> :
        x \in {JmpCmp("a"), IAdd, CEq, GetStruct(0)}}

\* A call, a Return in the callee, instructions after the Call and after the
\* Return.
CallReturnPrograms ==
    {<<ConstInt(1), ConstInt(2), Call("f", 1), ConstInt(9), Label("f"), GetLocal(0),
       Return, ConstInt(3)>>,
     <<ConstInt(1), Call("f", 1), Return, Label("f"), Return, ConstInt(3)>>}

\* Instructions that find fewer operands than they pop.
UnderflowPrograms ==
    {<<ConstInt(1), Call("a", 2), Label("a"), ConstInt(1)>>,
     <<ConstInt(1), ConstInt(2), PushStruct(3), ConstInt(1)>>,
     <<ConstInt(1), CGe, ConstInt(1)>>}

Programs ==
    ShortPrograms \cup LoopPrograms \cup FillPrograms \cup BinopPrograms
        \cup ExamplePrograms \cup StaleLocalPrograms \cup CallReturnPrograms
        \cup UnderflowPrograms

-----------------------------------------------------------------------------
(* Spec: Interpreter::new(input_instructions), then run() *)

\* The interpreter that new returned; when it returns None there is none to
\* run and the variables hold the empty one.
Init ==
    /\ input_instructions \in Programs
    /\ LET ret == NewReturn(input_instructions)
           this == IF ret = None THEN New(<<>>) ELSE ret[1]
       IN /\ vm = this.vm
          /\ instructions = this.instructions
          /\ labels = this.labels
          /\ frame = this.frame
          /\ status = IF ret = None THEN "NoInterpreter" ELSE "Running"
          /\ last = [instr |-> Instr("new", 0, ""),
                     res |-> IF ret = None THEN "None" ELSE "Some"]
    /\ passes = 0
    /\ mark_visits = 0
    /\ issued = {}
    /\ allocs = 0
    /\ steps = 0

Next ==
    \/ StepConstInt
    \/ StepConstFloat
    \/ StepPushStruct
    \/ StepGetLocal
    \/ StepGetStruct
    \/ StepBinop
    \/ StepCmp
    \/ StepCall
    \/ StepJump
    \/ StepJmpCmp
    \/ StepReturn
    \/ RunNoInstruction

Spec == Init /\ [][Next]_vars

-----------------------------------------------------------------------------
(* SpecVM: a client of VM<Value>.  It allocates Int and Struct values, the
   fields of a Struct being identifiers it has just popped, pushes and
   dereferences identifiers it was given earlier (live or not), pops,
   switches the collector and collects. *)

\* What a VM call leaves in the variables.
VMApply(call, o, res, alloc) ==
    /\ vm' = o.vm
    /\ status' = res
    /\ passes' = PassesAfter(vm, o.vm, o.collected, alloc # {})
    /\ mark_visits' = o.visits
    /\ issued' = issued \cup alloc
    /\ allocs' = allocs + Cardinality(alloc)
    /\ last' = [instr |-> call, res |-> res]
    /\ steps' = steps + 1
    /\ UNCHANGED <<input_instructions, instructions, labels, frame>>

\* push_value(Value::Int(1)), or push_value(Value::Struct(fields)) with the
\* fields popped off the stack just before.
VMPushValue ==
    /\ status = "Running"
    /\ steps < MaxCalls
    /\ allocs < MaxAllocs
    /\ \E n \in 0..MaxFields :
          /\ n <= Len(vm.stack)
          /\ Len(vm.stack) - n < MaxStack
          /\ LET v1 == PopN(vm, n).vm
                 val == IF n = 0 THEN ValueInt(1) ELSE ValueStruct(PopN(vm, n).vals)
                 o == PushValue(v1, val)
             IN VMApply(Instr("push_value", n, ""), o,
                        IF o.ok THEN "Running" ELSE "PanicInMark",
                        {PushValueIndex(v1, val)})

VMPush ==
    /\ status = "Running"
    /\ steps < MaxCalls
    /\ Len(vm.stack) < MaxStack
    /\ \E id \in issued :
          VMApply(Instr("push", 0, ""), Outcome(Push(vm, id), TRUE, FALSE, 0), "Running", {})

VMPop ==
    /\ status = "Running"
    /\ steps < MaxCalls
    /\ VMApply(Instr("pop", 0, ""),
               Outcome(IF Top(vm) = None THEN vm ELSE PopRest(vm), TRUE, FALSE, 0),
               "Running", {})

VMGet ==
    /\ status = "Running"
    /\ steps < MaxCalls
    /\ \E id \in issued :
          VMApply(Instr("get", 0, ""), Outcome(vm, Get(vm, id) # None, FALSE, 0),
                  IF Get(vm, id) # None THEN "Running" ELSE "PanicInGet", {})

VMGcCall(on) ==
    /\ status = "Running"
    /\ steps < MaxCalls
    /\ LET o == Gc(vm, on)
       IN VMApply(Instr("gc", IF on THEN 1 ELSE 0, ""), o,
                  IF o.ok THEN "Running" ELSE "PanicInMark", {})

VMGc == \E on \in BOOLEAN : VMGcCall(on)

VMGarbageCollect ==
    /\ status = "Running"
    /\ steps < MaxCalls
    /\ LET o == GarbageCollect(vm)
       IN VMApply(Instr("garbage_collect", 0, ""), o,
                  IF o.ok THEN "Running" ELSE "PanicInMark", {})

InitVM ==
    /\ \E size \in 0..MaxThreshold : vm = VMNew(size)
    /\ input_instructions = <<>>
    /\ instructions = <<>>
    /\ labels = {}
    /\ frame = None
    /\ status = "Running"
    /\ passes = 0
    /\ mark_visits = 0
    /\ issued = {}
    /\ allocs = 0
    /\ last = [instr |-> Instr("new", 0, ""), res |-> "Ok"]
    /\ steps = 0

NextVM ==
    \/ VMPushValue
    \/ VMPush
    \/ VMPop
    \/ VMGet
    \/ VMGc
    \/ VMGarbageCollect

SpecVM == InitVM /\ [][NextVM]_vars

-----------------------------------------------------------------------------
(* Helpers of the properties *)

\* The identifiers on the operand stack and in the locals frames.
StackIds == {vm.stack[k] : k \in 1..Len(vm.stack)}

LocalsIds ==
    IF frame = None THEN {}
    ELSE UNION {{Locals[i][j] : j \in 1..Len(Locals[i])} : i \in 1..Len(Locals)}

\* The objects of the live identifiers.
ObjectOf(id) == ArenaGet(vm.objects, id)[1]

\* The least set of identifiers that holds the operand stack and, with every
\* live Struct, its fields (live or not).
RECURSIVE ClosureFrom(_)
ClosureFrom(seen) ==
    LET next == seen \cup
                UNION {{Children(ObjectOf(p).value)[k] : k \in 1..Len(Children(ObjectOf(p).value))} :
                         p \in {q \in seen : ArenaContains(vm.objects, q)}}
    IN IF next = seen THEN seen ELSE ClosureFrom(next)

RootClosure == ClosureFrom(StackIds)

Panics == {"PanicInMark", "PanicInGet", "PanicInDisplay", "PanicIndexOutOfBounds",
           "PanicOverflow"}

-----------------------------------------------------------------------------
(* Properties of the interpreter, checked under Spec *)

\* C2: at every instruction boundary of run(), every identifier on the
\* operand stack and every identifier held in a locals frame refers to a live
\* heap object.
C2_EngineIdentifiersLive ==
    status = "Running" =>
        \A id \in StackIds \cup LocalsIds : ArenaContains(vm.objects, id)

\* C3: a triggered collection always completes: the mark phase never
\* dereferences an identifier that is not live.
C3_CollectionNeverAborts == status # "PanicInMark"

\* The top n identifiers of the operand stack before the step, in the order
\* they were pushed.
PushedOrder(n) == SubSeq(vm.stack, Len(vm.stack) - n + 1, Len(vm.stack))

\* PushStruct(n) that succeeds allocates Struct [x1, ..., xn] and pushes it.
PushStructKeepsOrder ==
    (last'.instr.op = "PushStruct" /\ last'.res = "Next") =>
        /\ allocs' = allocs + 1
        /\ Len(vm'.stack) = Len(vm.stack) - last'.instr.n + 1
        /\ Get(vm', Top(vm')[1]) # None
        /\ Get(vm', Top(vm')[1])[1].value = ValueStruct(PushedOrder(last'.instr.n))

\* GetStruct(i) that succeeds pops the struct and pushes its 0-based field i,
\* allocating nothing.
GetStructPushesField ==
    (last'.instr.op = "GetStruct" /\ last'.res = "Next") =>
        /\ allocs' = allocs
        /\ vm'.objects = vm.objects
        /\ vm'.stack = Append(SubSeq(vm.stack, 1, Len(vm.stack) - 1),
                              ObjectOf(Top(vm)[1]).value.fields[last'.instr.n + 1])

\* [ConstInt(1), ConstInt(2), PushStruct(2), GetStruct(1)] ends with Int(2)
\* on top of the stack.
StructExample ==
    (input_instructions = <<ConstInt(1), ConstInt(2), PushStruct(2), GetStruct(1)>>
     /\ status = "Ok") =>
        ObjectOf(Top(vm)[1]).value = ValueInt(2)

\* C8: struct round trip: PushStruct(n) keeps the left-to-right push order of
\* its fields, GetStruct(i) pushes field i without allocating, and the
\* documented example leaves Int(2) on top.
C8_StructRoundTrip ==
    /\ [][PushStructKeepsOrder /\ GetStructPushesField]_vars
    /\ [](StructExample)

\* Call(label, n) that succeeds pops n identifiers into one new frame
\* [x1, ..., xn] and moves to the instruction bound to label.
CallKeepsOrder ==
    (last'.instr.op = "Call" /\ last'.res = "Jump") =>
        /\ frame'[1].locals_stack = Append(Locals, PushedOrder(last'.instr.n))
        /\ vm'.stack = SubSeq(vm.stack, 1, Len(vm.stack) - last'.instr.n)
        /\ frame'[1].instr_ptr = LabelGet(labels, last'.instr.label)[1]
        /\ allocs' = allocs

\* GetLocal(i) that succeeds pushes the 0-based identifier i of the innermost
\* frame, allocating nothing.
GetLocalPushesLocal ==
    (last'.instr.op = "GetLocal" /\ last'.res = "Next") =>
        /\ vm'.stack = Append(vm.stack, Locals[Len(Locals)][last'.instr.n + 1])
        /\ vm'.objects = vm.objects
        /\ allocs' = allocs

\* C9: Call(label, n) builds the frame [x1, ..., xn] in push order and jumps
\* to label; GetLocal(i) then pushes local i without allocating.
C9_CallBindsLocalsInOrder == [][CallKeepsOrder /\ GetLocalPushesLocal]_vars

\* The positions of the input that hold an instruction, not a Label.
IsInstruction(k) == input_instructions[k].op # "Label"

\* The slot the instruction at input position j is loaded into.
SlotOf(j) == Cardinality({i \in 1..(j - 1) : IsInstruction(i)})

\* The first position after k that holds an instruction (0 when none does).
NextInstruction(k) ==
    IF \E j \in (k + 1)..Len(input_instructions) : IsInstruction(j)
    THEN CHOOSE j \in (k + 1)..Len(input_instructions) :
            /\ IsInstruction(j)
            /\ \A i \in (k + 1)..(j - 1) : ~IsInstruction(i)
    ELSE 0

\* The label names that occur exactly once in the input.
DeclaredOnce(name) ==
    Cardinality({k \in 1..Len(input_instructions) :
                    ~IsInstruction(k) /\ input_instructions[k].label = name}) = 1

\* C10: after Interpreter::new every Label (its name occurring once) followed
\* by an instruction is bound to the first instruction after it, also in a run
\* of consecutive Labels; a Label followed by no instruction is not in the
\* table; and the Labels are not stored as instructions.
C10_LabelLoading ==
    /\ \A k \in 1..Len(input_instructions) :
          (~IsInstruction(k) /\ DeclaredOnce(input_instructions[k].label)) =>
              LabelGet(labels, input_instructions[k].label) =
                  IF NextInstruction(k) = 0 THEN None
                  ELSE Some(SlotOf(NextInstruction(k)))
    /\ instructions = SelectSeq(input_instructions, LAMBDA x : x.op # "Label")

\* C5: outside a collection no live object is marked: not when it has just been
\* allocated, not before a collection starts, not after one has returned.
C5_MarkBitsClear ==
    status # "PanicInMark" =>
        \A id \in LiveIds(vm.objects) : ~ObjectOf(id).marked

\* A collection has just returned, it freed an object and kept others.
C5_Witness ==
    /\ passes = 1
    /\ status = "Running"
    /\ vm.objects.len > 0
    /\ vm.objects.generation > 0

-----------------------------------------------------------------------------
(* Properties of the heap and the collector, checked under SpecVM *)

\* C1: when a collection has returned, the live objects are exactly those
\* reachable from the operand stack through Struct children, and the live
\* count is the size of that closure.
C1_LiveSetIsRootClosure ==
    (passes > 0 /\ status = "Running") =>
        /\ LiveIds(vm.objects) = RootClosure
        /\ vm.objects.len = Cardinality(RootClosure)

\* A collection has returned that freed an object and kept one that the stack
\* reaches only through a struct inside a struct.
C1_Witness ==
    /\ passes > 0
    /\ status = "Running"
    /\ vm.objects.generation > 0
    /\ \E id \in LiveIds(vm.objects) :
          /\ id \notin StackIds
          /\ \A p \in StackIds :
                \A k \in 1..Len(Children(ObjectOf(p).value)) :
                    Children(ObjectOf(p).value)[k] # id

\* C4: push_value never returns an identifier issued earlier, and an
\* identifier whose object was freed never resolves again, whatever is
\* allocated in its slot afterwards.
C4_StaleIdentifiersDetected ==
    /\ [](Cardinality(issued) = allocs)
    /\ [][\A id \in issued :
            ~ArenaContains(vm.objects, id) => Get(vm', id) = None]_vars

\* get has just panicked on a stale identifier while the slot of a freed
\* object holds a newer one: same position, another generation.
C4_Witness ==
    /\ status = "PanicInGet"
    /\ \E old \in issued : \E new \in issued :
          /\ old.index = new.index
          /\ old.generation # new.generation
          /\ ~ArenaContains(vm.objects, old)
          /\ ArenaContains(vm.objects, new)

\* The step ran a collection (to its end, or to a panic in mark).
CollectionRan ==
    \/ status' = "PanicInMark"
    \/ passes' = IF last'.instr.op = "push_value" THEN 1 ELSE passes + 1

\* C6: push_value collects iff the flag is set and the allocation brings the
\* live count above max_objects; gc(true) collects iff the live count is
\* above max_objects; gc(true) otherwise and gc(false) leave the heap alone;
\* while the flag is off nothing is removed.
C6_TriggerPolicy ==
    [][ /\ last'.instr.op = "push_value" =>
              (CollectionRan <=> (vm.gc_on /\ vm.objects.len + 1 > vm.max_objects))
        /\ last'.instr = Instr("gc", 1, "") =>
              /\ CollectionRan <=> vm.objects.len > vm.max_objects
              /\ ~CollectionRan => vm'.objects = vm.objects
        /\ last'.instr = Instr("gc", 0, "") => vm'.objects = vm.objects
        /\ ~vm'.gc_on => LiveIds(vm.objects) \subseteq LiveIds(vm'.objects)
      ]_vars

\* gc(true) found the live count above the threshold and collected at once:
\* it marked from a root and freed an object.
C6_Witness ==
    /\ last.instr = Instr("gc", 1, "")
    /\ status = "Running"
    /\ mark_visits > 0
    /\ passes = 1
    /\ vm.objects.generation > 0

\* C7: a collection that follows a collection, with no allocation and no
\* stack change in between, returns, leaves the set of live identifiers as it
\* was, and removes nothing the stack reaches.
C7_IdempotentCollection ==
    [][ (passes >= 1 /\ vm.gc_on /\ last'.instr.op = "garbage_collect") =>
            /\ status' = "Running"
            /\ passes' = passes + 1
            /\ LiveIds(vm'.objects) = LiveIds(vm.objects)
            /\ RootClosure \subseteq LiveIds(vm'.objects)
      ]_vars

\* Two collections in a row have returned; the first freed an object and
\* both kept one.
C7_Witness ==
    /\ passes >= 2
    /\ last.instr.op = "garbage_collect"
    /\ status = "Running"
    /\ vm.objects.generation > 0
    /\ vm.objects.len > 0

-----------------------------------------------------------------------------
(* Properties of the instructions, checked under Spec *)

\* A finished run() executes no further instruction.
HaltedStaysHalted == status # "Running" => UNCHANGED vars

\* The slot after the current one, when the arena of instructions has one.
HasNextSlot == frame[1].instr_ptr + 1 < Len(instructions)

\* JmpCmp(label), label defined, one live operand on top: the operand is
\* popped; Int(1) moves to label, Int(0) moves to the next slot (or leaves the
\* loop after the last one), any other value ends run() with ValueMismatch.
JmpCmpDecides ==
    (/\ last'.instr.op = "JmpCmp"
     /\ LabelGet(labels, last'.instr.label) # None
     /\ Top(vm) # None
     /\ ArenaContains(vm.objects, Top(vm)[1])) =>
        LET val == ObjectOf(Top(vm)[1]).value
        IN /\ vm'.stack = SubSeq(vm.stack, 1, Len(vm.stack) - 1)
           /\ vm'.objects = vm.objects
           /\ val = ValueInt(1) =>
                 /\ status' = "Running"
                 /\ frame'[1].instr_ptr = LabelGet(labels, last'.instr.label)[1]
           /\ val = ValueInt(0) =>
                 IF HasNextSlot
                 THEN status' = "Running" /\ frame'[1].instr_ptr = frame[1].instr_ptr + 1
                 ELSE status' = Finish(vm')
           /\ val \notin {ValueInt(0), ValueInt(1)} => status' = "ValueMismatch"

\* C11: JmpCmp pops one identifier; Int(1) jumps to the label, Int(0) falls
\* through, any other Int, any Float and any Struct fail with ValueMismatch,
\* after which nothing more is executed.
C11_ConditionalJump == [][JmpCmpDecides /\ HaltedStaysHalted]_vars

\* Return changes neither the VM nor the frame and ends run() with what
\* self.vm.top() gives.
ReturnHalts ==
    last'.instr.op = "Return" =>
        /\ vm' = vm
        /\ frame' = frame
        /\ allocs' = allocs
        /\ status' = IF vm.stack = <<>> THEN "StackUnderflow" ELSE "Ok"

\* No step takes a frame off the locals stack.
LocalsNeverPopped ==
    frame # None =>
        /\ frame' # None
        /\ Len(frame'[1].locals_stack) >= Len(Locals)
        /\ SubSeq(frame'[1].locals_stack, 1, Len(Locals)) = Locals

\* C12: Return leaves the operand stack, the heap and the locals stack as
\* they are and ends run() at once, also after one or more Calls: no frame is
\* ever popped, nothing more is executed, and run() returns the top of the
\* operand stack, or StackUnderflow when it is empty.
C12_ReturnHaltsRun == [][ReturnHalts /\ LocalsNeverPopped /\ HaltedStaysHalted]_vars

\* A Return reached inside a Call has ended run() with the top of the stack
\* while an instruction was left after it.
C12_Witness ==
    /\ last.instr.op = "Return"
    /\ status = "Ok"
    /\ Len(Locals) >= 1
    /\ HasNextSlot
    /\ Top(vm) # None

\* new has just returned.
JustLoaded == last.instr.op = "new"

\* C13: Interpreter::new returns none for the empty instruction sequence and
\* an interpreter for every other sequence.
C13_EmptyProgramNotLoaded ==
    JustLoaded => (last.res = "None" <=> input_instructions = <<>>)

\* The two operands of a binary opcode: a was pushed first, b is on top.
OperandA == vm.stack[Len(vm.stack) - 1]

OperandB == vm.stack[Len(vm.stack)]

\* A binary opcode is about to run on two live operands.
BinaryOnLiveOperands ==
    /\ last'.instr.op \in IntBinops \cup FloatBinops \cup CmpOps
    /\ Len(vm.stack) >= 2
    /\ ArenaContains(vm.objects, OperandA)
    /\ ArenaContains(vm.objects, OperandB)

\* The variants the opcode op requires of its operands.
VariantsFit(op, a, b) ==
    \/ op \in IntBinops /\ a.tag = "Int" /\ b.tag = "Int"
    \/ op \in FloatBinops /\ a.tag = "Float" /\ b.tag = "Float"
    \/ op \in CmpOps /\ a.tag = "Int" /\ b.tag = "Int"
    \/ op \in CmpOps /\ a.tag = "Float" /\ b.tag = "Float"

\* Operands of the wrong variants: run() ends with ValueMismatch, both
\* operands popped, nothing allocated, nothing pushed.
MismatchRejected ==
    (/\ BinaryOnLiveOperands
     /\ ~VariantsFit(last'.instr.op, ObjectOf(OperandA).value, ObjectOf(OperandB).value)) =>
        /\ status' = "ValueMismatch"
        /\ allocs' = allocs
        /\ vm'.objects = vm.objects
        /\ vm'.stack = SubSeq(vm.stack, 1, Len(vm.stack) - 2)

\* [ConstInt(1), ConstFloat(2.0), IAdd] ends with ValueMismatch.
MismatchExample ==
    (input_instructions = <<ConstInt(1), ConstFloat(2), IAdd>> /\ status # "Running") =>
        status = "ValueMismatch"

\* C14: an arithmetic or comparison opcode whose operands do not have the
\* variants it requires ends run() with ValueMismatch: nothing is allocated
\* or pushed, both operands stay popped, nothing more is executed.
C14_TypeMismatch ==
    /\ [][MismatchRejected /\ HaltedStaysHalted]_vars
    /\ [](MismatchExample)

\* The number of operands the instruction i pops when its label resolves.
Pops(i) ==
    IF i.op \in IntBinops \cup FloatBinops \cup CmpOps THEN 2
    ELSE IF i.op \in {"GetStruct", "JmpCmp"} THEN 1
    ELSE IF i.op \in {"PushStruct", "Call"} THEN i.n
    ELSE 0

\* The instruction i reaches its pops: Jump, JmpCmp and Call look their label
\* up first.
ReachesPops(i) ==
    i.op \in {"JmpCmp", "Call"} => LabelGet(labels, i.label) # None

\* An instruction that pops more operands than the stack holds ends run()
\* with StackUnderflow; the stack is empty afterwards, the heap and the locals
\* stack are as before.
UnderflowKeepsPops ==
    (/\ last'.instr.op \notin {"new", "run"}
     /\ ReachesPops(last'.instr)
     /\ Len(vm.stack) < Pops(last'.instr)) =>
        /\ status' = "StackUnderflow"
        /\ vm'.stack = <<>>
        /\ vm'.objects = vm.objects
        /\ allocs' = allocs
        /\ frame'[1].locals_stack = Locals

\* [IAdd] ends with StackUnderflow.
UnderflowExample ==
    (input_instructions = <<IAdd>> /\ status # "Running") => status = "StackUnderflow"

\* C15: an instruction that pops on an empty operand stack ends run() with
\* StackUnderflow; what it popped before stays popped, nothing is allocated,
\* no locals frame is pushed, nothing more is executed.
C15_UnderflowWithoutRollback ==
    /\ [][UnderflowKeepsPops /\ HaltedStaysHalted]_vars
    /\ [](UnderflowExample)

\* PushStruct or Call found fewer operands than it pops: the operand that
\* was there is gone, its object is still in the heap.
C15_Witness ==
    /\ status = "StackUnderflow"
    /\ last.instr.op \in {"PushStruct", "Call"}
    /\ last.instr.n >= 2
    /\ vm.stack = <<>>
    /\ Locals = <<>>
    /\ vm.objects.len >= 1

\* Jump, JmpCmp or Call naming a label that the table does not hold ends
\* run() with UnresolvedLabel and changes nothing else.
UnresolvedLabelFirst ==
    (/\ last'.instr.op \in {"Jump", "JmpCmp", "Call"}
     /\ LabelGet(labels, last'.instr.label) = None) =>
        /\ status' = "UnresolvedLabel"
        /\ vm' = vm
        /\ frame' = frame
        /\ allocs' = allocs

\* [Jump("nope")] ends with UnresolvedLabel.
UnresolvedExample ==
    (input_instructions = <<Jump("nope")>> /\ status # "Running") =>
        status = "UnresolvedLabel"

\* C16: Jump, JmpCmp or Call whose label is not in the label table ends
\* run() with UnresolvedLabel before any pop: the operand stack, the locals
\* stack and the heap are unchanged, also when the stack holds fewer operands
\* than the instruction needs.
C16_UnresolvedLabel ==
    /\ [][UnresolvedLabelFirst /\ HaltedStaysHalted]_vars
    /\ [](UnresolvedExample)

\* Call named a label declared with no instruction after it, on an operand
\* stack holding fewer operands than it pops.
C16_Witness ==
    /\ status = "UnresolvedLabel"
    /\ last.instr.op = "Call"
    /\ Len(vm.stack) < last.instr.n
    /\ \E k \in 1..Len(input_instructions) :
          input_instructions[k] = Label(last.instr.label)

\* What the opcode op is to compute from the Ints a and b.
Expected(op, a, b) ==
    CASE op = "IAdd" -> a + b
      [] op = "ISub" -> a - b
      [] op = "IMul" -> a * b
      [] op = "CEq" -> IF a = b THEN 1 ELSE 0
      [] op = "CNe" -> IF a # b THEN 1 ELSE 0
      [] op = "CLt" -> IF a < b THEN 1 ELSE 0
      [] op = "CLe" -> IF a <= b THEN 1 ELSE 0
      [] op = "CGt" -> IF a > b THEN 1 ELSE 0
      [] op = "CGe" -> IF a >= b THEN 1 ELSE 0

\* An Int opcode on two live Ints, the result within the i32 range: both are
\* popped and one new Int holding the result is pushed.
IntResultPushed ==
    (/\ BinaryOnLiveOperands
     /\ last'.instr.op \in IntBinops \cup CmpOps
     /\ ObjectOf(OperandA).value.tag = "Int"
     /\ ObjectOf(OperandB).value.tag = "Int"
     /\ last'.instr.op \in IntBinops =>
           ~IntOverflows(last'.instr.op, ObjectOf(OperandA).value.num,
                         ObjectOf(OperandB).value.num)) =>
        /\ allocs' = allocs + 1
        /\ Cardinality(issued' \ issued) = 1
        /\ Len(vm'.stack) = Len(vm.stack) - 1
        /\ \E new \in issued' \ issued :
              /\ vm'.stack = Append(SubSeq(vm.stack, 1, Len(vm.stack) - 2), new)
              /\ ArenaContains(vm'.objects, new)
              /\ ArenaGet(vm'.objects, new)[1].value =
                    ValueInt(Expected(last'.instr.op, ObjectOf(OperandA).value.num,
                                      ObjectOf(OperandB).value.num))

\* [ConstInt(3), ConstInt(7), ConstInt(2), IMul, IMul] ends with Int(42) on
\* top.
ArithmeticExample ==
    (/\ input_instructions = <<ConstInt(3), ConstInt(7), ConstInt(2), IMul, IMul>>
     /\ status # "Running") =>
        /\ status = "Ok"
        /\ ObjectOf(Top(vm)[1]).value = ValueInt(42)

\* C17: IAdd/ISub/IMul on Ints a (pushed first) and b pop both and push one
\* new Int a+b / a-b / a*b when that lies in the i32 range; CEq..CGe pop both
\* and push a new Int(1) when the comparison of a with b holds, Int(0) when
\* not; the stack is one shorter; the example ends with Int(42).
C17_ArithmeticResults ==
    /\ [][IntResultPushed]_vars
    /\ [](ArithmeticExample)

\* The example has run to its end: five allocations, Int(42) on top.
C17_Witness ==
    /\ input_instructions = <<ConstInt(3), ConstInt(7), ConstInt(2), IMul, IMul>>
    /\ status = "Ok"
    /\ last.instr.op = "IMul"
    /\ ObjectOf(Top(vm)[1]).value = ValueInt(42)
    /\ allocs = 5

-----------------------------------------------------------------------------
(* Properties of the mark phase, checked under SpecVM *)

\* The live objects at the moment the marking of the step starts: those of
\* the state before and the one the step has just allocated.
LiveWhenMarking == vm.objects.len + Cardinality(issued' \ issued)

\* C18: within one collection every live object is visited at most once,
\* also when the stack names it several times or several Structs share it:
\* a collection that returns has made no more calls of mark than there were
\* live objects.
C18_MarkVisitsOnce == [][status' = "Running" => mark_visits' <= LiveWhenMarking]_vars

-----------------------------------------------------------------------------
(* Properties of the reference graph and of the heap size, checked under
   Spec *)

\* The identifiers a live object holds as Struct fields.
ChildIds(id) ==
    {Children(ObjectOf(id).value)[k] : k \in 1..Len(Children(ObjectOf(id).value))}

\* No live object reaches itself through Struct fields.
Acyclic == \A id \in LiveIds(vm.objects) : id \notin ClosureFrom(ChildIds(id))

\* The fields of a Struct that PushStruct allocates were allocated before it
\* and are live in the heap it is allocated in.
ChildrenLiveAtAllocation ==
    (last'.instr.op = "PushStruct" /\ allocs' = allocs + 1) =>
        \A new \in issued' \ issued :
            LET fields == Children(ArenaGet(vm'.objects, new)[1].value)
            IN \A k \in 1..Len(fields) :
                  /\ fields[k] \in issued
                  /\ ArenaContains(vm.objects, fields[k])

\* C19: every child identifier stored in a Struct was allocated before the
\* Struct and was live when the Struct was allocated, so no Struct is created
\* around a freed identifier and the reference graph has no cycle.
C19_AcyclicByConstruction ==
    /\ [][ChildrenLiveAtAllocation]_vars
    /\ [](Acyclic)

\* The opcodes that end with self.vm.push_value.
AllocatingOps ==
    {"ConstInt", "ConstFloat", "PushStruct"} \cup IntBinops \cup FloatBinops \cup CmpOps

\* The heap holds no more objects than the threshold, or none that the
\* operand stack does not reach.
WithinBound ==
    \/ vm.objects.len <= vm.max_objects
    \/ LiveIds(vm.objects) \subseteq RootClosure

\* execute returned Ok: the instruction completed.
Completed == last.res \in {"Next", "Jump", "Stop"}

\* An instruction allocates at most once, and what it allocates is the last
\* thing it pushes.
OneAllocationLast ==
    /\ allocs' <= allocs + 1
    /\ allocs' = allocs + 1 =>
          /\ Top(vm') # None
          /\ Top(vm')[1] \in issued' \ issued

\* C20 as stated: after every completed instruction the live count is at
\* most max_objects or every live object is reachable from the operand
\* stack; an instruction allocates at most once, as its last stack effect.
C20_HeapBoundEveryInstruction ==
    /\ []((vm.gc_on /\ Completed) => WithinBound)
    /\ [][OneAllocationLast]_vars

\* An instruction that does not allocate leaves the heap as it is.
HeapOnlyChangesOnAllocation == allocs' = allocs => vm'.objects = vm.objects

\* C20 amended: the bound holds after every completed instruction that
\* allocated; an instruction that allocates nothing leaves the heap alone
\* (what it pops may stay in the heap, unreachable, above the threshold, until
\* the next allocation); an instruction allocates at most once, as its last
\* stack effect.
C20_HeapBoundAfterAllocation ==
    /\ []((vm.gc_on /\ Completed /\ last.instr.op \in AllocatingOps) => WithinBound)
    /\ [][OneAllocationLast /\ HeapOnlyChangesOnAllocation]_vars

\* An allocation has just taken the live count above the threshold and the
\* collection it triggered has returned; an earlier one had freed an object.
C20_Witness ==
    /\ Completed
    /\ last.instr.op \in AllocatingOps
    /\ passes = 1
    /\ vm.objects.len > vm.max_objects
    /\ vm.objects.generation > 0

=============================================================================
